---- MODULE Spec2Model ----
(***************************************************************************)
(* The browser-side markdown renderer of go-wiki (public/js/markdown.js)   *)
(* and the editor page that drives it (public/js/edit.js).                 *)
(*                                                                         *)
(* A JavaScript string is a sequence of one-character strings.  A regular  *)
(* expression is a record tree, matched with JavaScript's backtracking     *)
(* priorities: Ends lists every way a node can match at a position, the    *)
(* way the engine would try them, so the head of the list is the match.    *)
(***************************************************************************)
EXTENDS Integers, Sequences, FiniteSets, TLC

\* ------------------------------------------------------------------ text

NL == "\n"
CR == "\r"
TAB == "\t"
SP == " "
\* the grave accent U+0060 (a TLA+ string cannot hold that character)
BQ == "GRAVE"
QUOT == "\""
APOS == "'"
BSL == "\\"

\* WhiteSpace and LineTerminator characters of the alphabet (what \s matches)
WhiteSpace == {SP, TAB, NL, CR}
LineTerminators == {NL, CR}
DecimalDigits == {"0", "1", "2", "3", "4", "5", "6", "7", "8", "9"}

Min(S) == CHOOSE x \in S : \A y \in S : x <= y

\* the strings ss[lo], ..., ss[hi] joined
RECURSIVE ConcatRange(_, _, _)
ConcatRange(ss, lo, hi) ==
    IF lo > hi THEN <<>>
    ELSE IF lo = hi THEN ss[lo]
    ELSE ConcatRange(ss, lo, (lo + hi) \div 2)
         \o ConcatRange(ss, ((lo + hi) \div 2) + 1, hi)

\* flatten a sequence of strings
Concat(ss) == ConcatRange(ss, 1, Len(ss))

\* s.slice(a - 1, b - 1): the characters at positions a .. b-1
Slice(s, a, b) == SubSeq(s, a, b - 1)

\* s.startsWith(t, i - 1)
StartsWithAt(s, t, i) ==
    /\ i + Len(t) - 1 <= Len(s)
    /\ \A k \in 1..Len(t) : s[i + k - 1] = t[k]

\* s.includes(t)
Includes(s, t) == \E i \in 1..(Len(s) + 1) : StartsWithAt(s, t, i)

\* ----------------------------------------------------- regular expressions

\* a character class [...] and its negation [^...]
Cls(cs) == [t |-> "cls", neg |-> FALSE, cs |-> cs]
NotCls(cs) == [t |-> "cls", neg |-> TRUE, cs |-> cs]
Chr(c) == Cls({c})
\* a literal string
Lit(str) == [t |-> "seq", rs |-> [k \in 1..Len(str) |-> Chr(str[k])]]
Cat(rs) == [t |-> "seq", rs |-> rs]
Alt(a, b) == [t |-> "alt", rs |-> <<a, b>>]
\* r{min,max}, greedy or lazy
Rep(r, min, max, greedy) == [t |-> "rep", r |-> r, min |-> min, max |-> max, greedy |-> greedy]
\* more repetitions than any text has characters
Unbounded == 1000000
Star(r) == Rep(r, 0, Unbounded, TRUE)
LazyStar(r) == Rep(r, 0, Unbounded, FALSE)
Plus(r) == Rep(r, 1, Unbounded, TRUE)
Opt(r) == Rep(r, 0, 1, TRUE)
Times(r, n) == Rep(r, n, n, TRUE)
\* capture group number n
Grp(n, r) == [t |-> "grp", n |-> n, r |-> r]
\* ^ with the m flag, ^ without it, $ without it
Bol == [t |-> "bol"]
Bos == [t |-> "bos"]
Eos == [t |-> "eos"]

\* \s, \S, [^\n], . and [ \t\r\S]
ReSpace == Cls(WhiteSpace)
ReNonSpace == NotCls(WhiteSpace)
ReNotNL == NotCls({NL})
ReDot == NotCls(LineTerminators)
ReAny == NotCls({})
ReInline == NotCls(WhiteSpace \ {SP, TAB, CR})

NoCaps == <<<<0, 0>>, <<0, 0>>>>
InClass(ch, r) == (ch \in r.cs) # r.neg

\* where the longest run of at most max characters of class r from i ends
RunEnd(s, i, r, max) ==
    Min({i + max} \cup {j \in i..(Len(s) + 1) : j = Len(s) + 1 \/ ~InClass(s[j], r)})

\* the repetitions of a class from lo to hi characters, in the order tried
RepEnds(lo, hi, greedy, c) ==
    [n \in 1..(hi - lo + 1) |-> [e |-> IF greedy THEN hi - n + 1 ELSE lo + n - 1, c |-> c]]

\* the matches of a group's body, each recorded as capture n from position q
Captured(inner, n, q) ==
    [k \in 1..Len(inner) |->
       [e |-> inner[k].e, c |-> [inner[k].c EXCEPT ![n] = <<q, inner[k].e>>]]]

\* The backtracking matcher.  Ends(r, s, m): every way node r can match s
\* from the position m.e on, with the captures m.c made so far, in the order
\* in which the engine tries them: a sequence of [e |-> end position,
\* c |-> captures].  A greedy quantifier lists its longest repetition first,
\* a lazy one its shortest; the head of the list is the match the engine
\* takes, the rest is what it falls back to when what follows fails.
RECURSIVE Ends(_, _, _), EndsCat(_, _, _, _), EndsCatRest(_, _, _, _),
          EndsRep(_, _, _, _, _, _), EndsRepMore(_, _, _, _, _, _, _)
Ends(r, s, m) ==
    CASE r.t = "cls" ->
           IF m.e <= Len(s) /\ InClass(s[m.e], r)
           THEN <<[e |-> m.e + 1, c |-> m.c]>> ELSE <<>>
      [] r.t = "seq" -> EndsCat(r.rs, 1, s, m)
      [] r.t = "alt" -> Ends(r.rs[1], s, m) \o Ends(r.rs[2], s, m)
      [] r.t = "rep" /\ r.r.t = "cls" ->
           RepEnds(m.e + r.min, RunEnd(s, m.e, r.r, r.max), r.greedy, m.c)
      [] r.t = "rep" /\ r.r.t # "cls" -> EndsRep(r.r, r.min, r.max, r.greedy, s, m)
      [] r.t = "grp" -> Captured(Ends(r.r, s, m), r.n, m.e)
      [] r.t = "bol" -> IF m.e = 1 \/ s[m.e - 1] \in LineTerminators THEN <<m>> ELSE <<>>
      [] r.t = "bos" -> IF m.e = 1 THEN <<m>> ELSE <<>>
      [] r.t = "eos" -> IF m.e = Len(s) + 1 THEN <<m>> ELSE <<>>

\* the nodes rs[k], rs[k+1], ... one after the other
EndsCat(rs, k, s, m) ==
    IF k > Len(rs) THEN <<m>> ELSE EndsCatRest(rs, k, s, Ends(rs[k], s, m))

\* ends is every way rs[k] matched; the rest follows each of them
EndsCatRest(rs, k, s, ends) ==
    Concat([n \in 1..Len(ends) |-> EndsCat(rs, k + 1, s, ends[n])])

\* the repetition of a node that is no class
EndsRep(r, min, max, greedy, s, m) ==
    LET stop == IF min <= 0 THEN <<m>> ELSE <<>>
        more == EndsRepMore(r, min, max, greedy, s, m,
                            IF max <= 0 THEN <<>> ELSE Ends(r, s, m))
    IN  IF greedy THEN more \o stop ELSE stop \o more

\* once is every way r matched one more time; a repetition that matched
\* nothing is not taken
EndsRepMore(r, min, max, greedy, s, m, once) ==
    Concat([n \in 1..Len(once) |->
              IF once[n].e = m.e THEN <<>>
              ELSE EndsRep(r, min - 1, max - 1, greedy, s, once[n])])

\* the way the engine takes: the first of ends
Taken(ends) ==
    IF ends = <<>> THEN [ok |-> FALSE, e |-> 0, c |-> NoCaps]
    ELSE [ok |-> TRUE, e |-> ends[1].e, c |-> ends[1].c]

\* the match of re that starts at position q exactly
MatchAt(re, s, q) == Taken(Ends(re, s, [e |-> q, c |-> NoCaps]))

\* RegExp exec from position from on: the leftmost match, as
\* [at |-> start, e |-> end, c |-> captures], or at = 0 when there is none
RECURSIVE Exec(_, _, _), ExecOr(_, _, _, _)
Exec(re, s, from) ==
    IF from > Len(s) + 1 THEN [at |-> 0, e |-> 0, c |-> NoCaps]
    ELSE ExecOr(re, s, from, MatchAt(re, s, from))

\* m is the attempt at position from; the next position is tried when it failed
ExecOr(re, s, from, m) ==
    IF m.ok THEN [at |-> from, e |-> m.e, c |-> m.c] ELSE Exec(re, s, from + 1)

\* the text of capture group n of match m
Group(s, m, n) == Slice(s, m.c[n][1], m.c[n][2])

\* a replacement template: characters, and "$1" / "$2" for the groups
Expand(template, s, m) ==
    Concat([k \in 1..Len(template) |->
              CASE template[k] = "$1" -> Group(s, m, 1)
                [] template[k] = "$2" -> Group(s, m, 2)
                [] OTHER -> <<template[k]>>])

\* String.prototype.replace with a global regular expression
RECURSIVE ReplaceFrom(_, _, _, _), ReplaceMatch(_, _, _, _, _)
ReplaceFrom(s, re, template, from) ==
    ReplaceMatch(s, re, template, from, Exec(re, s, from))

\* m is the next match from position from on; an empty match advances by one
ReplaceMatch(s, re, template, from, m) ==
    IF m.at = 0 THEN Slice(s, from, Len(s) + 1)
    ELSE Slice(s, from, m.at) \o Expand(template, s, m)
         \o (IF m.e > m.at THEN ReplaceFrom(s, re, template, m.e)
             ELSE IF m.e > Len(s) THEN <<>>
             ELSE <<s[m.e]>> \o ReplaceFrom(s, re, template, m.e + 1))

Replace(s, re, template) == ReplaceFrom(s, re, template, 1)

\* String.prototype.split with a regular expression of one capture group:
\* the pieces between the matches, with each match's group between them.
\* p is where the current piece starts; a match that ends at p is skipped.
RECURSIVE SplitFrom(_, _, _, _), SplitMatch(_, _, _, _, _)
SplitFrom(s, re, p, q) ==
    IF q > Len(s) THEN <<Slice(s, p, Len(s) + 1)>>
    ELSE SplitMatch(s, re, p, q, MatchAt(re, s, q))

\* m is the attempt at position q
SplitMatch(s, re, p, q, m) ==
    IF ~m.ok \/ m.e = p THEN SplitFrom(s, re, p, q + 1)
    ELSE <<Slice(s, p, q), Group(s, m, 1)>> \o SplitFrom(s, re, m.e, m.e)

Split(s, re) ==
    IF s = <<>> THEN (IF MatchAt(re, s, 1).ok THEN <<>> ELSE <<s>>)
    ELSE SplitFrom(s, re, 1, 1)

\* what test returns and the lastIndex it leaves, m being the match found
TestResult(m) ==
    IF m.at = 0 THEN [ok |-> FALSE, last |-> 0] ELSE [ok |-> TRUE, last |-> m.e - 1]

\* RegExp.prototype.test of a global regular expression whose lastIndex is
\* last (0-based): [ok |-> result, last |-> the lastIndex it leaves]
Test(re, s, last) == TestResult(Exec(re, s, last + 1))

\* String.prototype.trim
RECURSIVE TrimStart(_), TrimEnd(_)
TrimStart(s) == IF s # <<>> /\ Head(s) \in WhiteSpace THEN TrimStart(Tail(s)) ELSE s
TrimEnd(s) ==
    IF s # <<>> /\ s[Len(s)] \in WhiteSpace THEN TrimEnd(SubSeq(s, 1, Len(s) - 1)) ELSE s
Trim(s) == TrimEnd(TrimStart(s))

\* ------------------------------------------------------------ markdown.js

\* RenderModes
NORMAL == 0
BLOCK == 1
TABLE == 2
LIST == 3

Rule(re, template) == [re |-> re, template |-> template]

Tag(name) == <<"<">> \o name \o <<">">>
EndTag(name) == <<"<", "/">> \o name \o <<">">>
\* "<name>$1</name>"
Wrap(name) == Tag(name) \o <<"$1">> \o EndTag(name)

\* /DELIM([ \t\r\S]+)DELIM/g
Delimited(delim) == Cat(<<Lit(delim), Grp(1, Plus(ReInline)), Lit(delim)>>)

textFormatRules ==
    << Rule(Delimited(<<"*", "*", "*">>), <<"<", "i", ">", "<", "b", ">", "$1", "<", "/", "b", ">", "<", "/", "i", ">">>),
       Rule(Delimited(<<"*", "*">>), Wrap(<<"b">>)),
       Rule(Delimited(<<"*">>), Wrap(<<"i">>)),
       Rule(Delimited(<<BQ>>), Wrap(<<"c", "o", "d", "e">>)),
       Rule(Delimited(<<"_", "_">>), Wrap(<<"u">>)),
       Rule(Delimited(<<"~", "~">>), Wrap(<<"s">>)) >>

externalContentRules ==
    << \* /\!\[([^)]*)\]\(([^)]+)\)/g
       Rule(Cat(<<Chr("!"), Chr("["), Grp(1, Star(NotCls({")"}))), Chr("]"),
                  Chr("("), Grp(2, Plus(NotCls({")"}))), Chr(")")>>),
            <<"<", "i", "m", "g", " ", "a", "l", "t", "=", "\"", "$1", "\"", " ",
              "s", "r", "c", "=", "\"", "$2", "\"", ">">>),
       \* /\[([^\]]+)\]\(([^)]+)\)/g
       Rule(Cat(<<Chr("["), Grp(1, Plus(NotCls({"]"}))), Chr("]"),
                  Chr("("), Grp(2, Plus(NotCls({")"}))), Chr(")")>>),
            <<"<", "a", " ", "h", "r", "e", "f", "=", "\"", "$2", "\"", " ",
              "s", "t", "y", "l", "e", "=", "\"", "t", "e", "x", "t", "-", "d", "e", "c",
              "o", "r", "a", "t", "i", "o", "n", ":", " ", "n", "o", "n", "e", ";", "\"",
              ">", "$1", "<", "/", "a", ">">>) >>

\* /^#{n}\s+([^\n]+)/gm -> "<hn>$1</hn>"
HeaderRule(n, digit) ==
    Rule(Cat(<<Bol, Times(Chr("#"), n), Plus(ReSpace), Grp(1, Plus(ReNotNL))>>),
         Wrap(<<"h", digit>>))

headerRules ==
    << HeaderRule(6, "6"), HeaderRule(5, "5"), HeaderRule(4, "4"),
       HeaderRule(3, "3"), HeaderRule(2, "2"), HeaderRule(1, "1") >>

\* /^---\n/g
thematicBreakRule ==
    Rule(Cat(<<Bos, Lit(<<"-", "-", "-">>), Chr(NL)>>), Tag(<<"h", "r">>))

\* /([^\n]+[\S]+)\n?/g
paragraphRule ==
    Rule(Cat(<<Grp(1, Cat(<<Plus(ReNotNL), Plus(ReNonSpace)>>)), Opt(Chr(NL))>>),
         Wrap(<<"p">>))

\* /<p>(<[^\n]+>)\n?<\/p>/g
unwrapRule ==
    Rule(Cat(<<Lit(Tag(<<"p">>)), Grp(1, Cat(<<Chr("<"), Plus(ReNotNL), Chr(">")>>)),
               Opt(Chr(NL)), Lit(EndTag(<<"p">>))>>),
         <<"$1">>)

markdownRules ==
    headerRules \o <<thematicBreakRule>> \o externalContentRules
    \o <<paragraphRule, unwrapRule>> \o textFormatRules

tableRules == externalContentRules \o textFormatRules

\* [{0-9}]+\.
NumberMarker == Cat(<<Plus(Cls(DecimalDigits \cup {"{", "}"})), Chr(".")>>)

\* the list item rule as it would be without its m flag: ^ is the start of
\* the text only
listItemRuleNoM ==
    Rule(Cat(<<Bos, Star(ReSpace), Alt(Cls({"-", "|", "+", "*"}), NumberMarker),
               Plus(ReSpace), Grp(1, Plus(ReNotNL))>>),
         Wrap(<<"l", "i">>))

\* /^\s*(?:[-|\+|\*]|[{0-9}]+\.)\s+([^\n]+)/gm
listItemRule ==
    Rule(Cat(<<Bol, Star(ReSpace), Alt(Cls({"-", "|", "+", "*"}), NumberMarker),
               Plus(ReSpace), Grp(1, Plus(ReNotNL))>>),
         Wrap(<<"l", "i">>))

listRules == <<listItemRule>> \o externalContentRules \o textFormatRules

\* String.prototype.charCodeAt for the characters of the alphabet
CharCode(ch) ==
    CASE ch = TAB -> 9    [] ch = CR -> 13   [] ch = SP -> 32   [] ch = "!" -> 33
      [] ch = QUOT -> 34  [] ch = "#" -> 35  [] ch = "&" -> 38  [] ch = APOS -> 39
      [] ch = "(" -> 40   [] ch = ")" -> 41  [] ch = "*" -> 42  [] ch = "+" -> 43
      [] ch = "-" -> 45   [] ch = "." -> 46  [] ch = "0" -> 48  [] ch = "1" -> 49
      [] ch = "2" -> 50   [] ch = ";" -> 59  [] ch = "<" -> 60  [] ch = ">" -> 62
      [] ch = "[" -> 91   [] ch = BSL -> 92  [] ch = "]" -> 93  [] ch = "_" -> 95
      [] ch = BQ -> 96    [] ch = "a" -> 97  [] ch = "b" -> 98  [] ch = "c" -> 99
      [] ch = "d" -> 100  [] ch = "l" -> 108 [] ch = "t" -> 116 [] ch = "x" -> 120
      [] ch = "A" -> 65   [] ch = "B" -> 66  [] ch = "~" -> 126

\* the decimal digits of a number, as a template literal prints it
Digit(n) == <<"0", "1", "2", "3", "4", "5", "6", "7", "8", "9">>[(n % 10) + 1]

RECURSIVE Decimal(_)
Decimal(n) == IF n < 10 THEN <<Digit(n)>> ELSE Decimal(n \div 10) \o <<Digit(n)>>

\* .replace(/\\[^\n]/g, (match) => `&#${match.charCodeAt(1)};`)
RECURSIVE ReplaceBackslash(_, _), BackslashMatch(_, _, _)
ReplaceBackslash(s, from) ==
    BackslashMatch(s, from, Exec(Cat(<<Chr(BSL), ReNotNL>>), s, from))

\* m is the next match from position from on
BackslashMatch(s, from, m) ==
    IF m.at = 0 THEN Slice(s, from, Len(s) + 1)
    ELSE Slice(s, from, m.at) \o <<"&", "#">> \o Decimal(CharCode(s[m.at + 1]))
         \o <<";">> \o ReplaceBackslash(s, m.e)

\* for (const [rule, template] of rules) html = html.replace(rule, template)
\* (the length test has each result computed before the next rule is taken)
RECURSIVE ApplyRules(_, _)
ApplyRules(html, rules) ==
    IF rules = <<>> \/ Len(html) < 0 THEN html
    ELSE ApplyRules(Replace(html, Head(rules).re, Head(rules).template), Tail(rules))

\* escapeHtml as it would be without its .replace(/</g, "&lt;")
entityRulesNoLt ==
    << Rule(Chr("&"), <<"&", "a", "m", "p", ";">>),
       Rule(Chr(">"), <<"&", "g", "t", ";">>),
       Rule(Chr(QUOT), <<"&", "q", "u", "o", "t", ";">>),
       Rule(Chr(APOS), <<"&", "#", "0", "3", "9", ";">>) >>

\* the five character replacements of escapeHtml, in its order
entityRules ==
    << Rule(Chr("&"), <<"&", "a", "m", "p", ";">>),
       Rule(Chr("<"), <<"&", "l", "t", ";">>),
       Rule(Chr(">"), <<"&", "g", "t", ";">>),
       Rule(Chr(QUOT), <<"&", "q", "u", "o", "t", ";">>),
       Rule(Chr(APOS), <<"&", "#", "0", "3", "9", ";">>) >>

escapeHtml(unsafe) == ReplaceBackslash(ApplyRules(unsafe, entityRules), 1)

Fence == <<BQ, BQ, BQ>>

\* codeblockRegex as it would be without its capture group: split then
\* leaves the fenced blocks out of its result
codeblockRegexNoGroup ==
    Cat(<<Lit(Fence), Star(ReNonSpace), Opt(Chr(CR)), Chr(NL), LazyStar(ReAny), Lit(Fence)>>)

\* /(```[\S]*\r?\n[\s\S]*?```)/gm
codeblockRegex ==
    Grp(1, Cat(<<Lit(Fence), Star(ReNonSpace), Opt(Chr(CR)), Chr(NL), LazyStar(ReAny),
                 Lit(Fence)>>))

\* /^((?:\s*(?:[-\+\*]|[{0-9}]+\.)\s+[^\n]+\n?)+)/gm
listRegex ==
    Cat(<<Bol, Grp(1, Plus(Cat(<<Star(ReSpace), Alt(Cls({"-", "+", "*"}), NumberMarker),
                                 Plus(ReSpace), Plus(ReNotNL), Opt(Chr(NL))>>)))>>)

\* .map(val => val.split(listRegex)).flat()
SplitLists(blocks) == Concat([k \in 1..Len(blocks) |-> Split(blocks[k], listRegex)])

\* e.textContent.split(codeblockRegex).map(val => val.split(listRegex)).flat()
SplitText(textContent) == SplitLists(Split(textContent, codeblockRegex))

\* splitText.map(...): the two regular expressions are global, so each test
\* starts at the lastIndex the previous test left
RECURSIVE Classify(_, _, _), ClassifyValue(_, _, _, _)
Classify(splitText, codeLast, listLast) ==
    IF splitText = <<>> THEN <<>>
    ELSE ClassifyValue(splitText, Test(codeblockRegex, Head(splitText), codeLast),
                       Test(listRegex, Head(splitText), listLast), listLast)

\* the callback of the map on the head of splitText: the list test is made
\* only when the code test failed
ClassifyValue(splitText, isCode, isList, listLast) ==
    IF isCode.ok
    THEN <<[innerText |-> Head(splitText), renderingMode |-> BLOCK]>>
         \o Classify(Tail(splitText), isCode.last, listLast)
    ELSE <<[innerText |-> Head(splitText),
            renderingMode |-> IF isList.ok THEN LIST ELSE NORMAL]>>
         \o Classify(Tail(splitText), isCode.last, isList.last)

\* /```[\S]*(\r?\n[\s\S]*?)```/gm
blockRule ==
    Rule(Cat(<<Lit(Fence), Star(ReNonSpace),
               Grp(1, Cat(<<Opt(Chr(CR)), Chr(NL), LazyStar(ReAny)>>)), Lit(Fence)>>),
         Wrap(<<"p", "r", "e">>))

\* /\s+[{1-9}]+\..*$/.test(html)
isOrdered(html) ==
    Exec(Cat(<<Plus(ReSpace), Plus(Cls((DecimalDigits \ {"0"}) \cup {"{", "}"})),
               Chr("."), Star(ReDot), Eos>>), html, 1).at # 0

\* the switch on line.renderingMode, html being the escaped and trimmed text
RenderMode(html, renderingMode) ==
    CASE Len(html) >= 0 /\ renderingMode = BLOCK -> ApplyRules(html, <<blockRule>>)
      [] renderingMode = TABLE -> ApplyRules(html, tableRules)
      [] renderingMode = LIST ->
           IF isOrdered(html)
           THEN Tag(<<"o", "l">>) \o ApplyRules(html, listRules) \o EndTag(<<"o", "l">>)
           ELSE Tag(<<"u", "l">>) \o ApplyRules(html, listRules) \o EndTag(<<"u", "l">>)
      [] OTHER -> ApplyRules(html, markdownRules)

\* the body of the loop of renderMarkdownElement: the markup of one line
RenderLine(line) == RenderMode(Trim(escapeHtml(line.innerText)), line.renderingMode)

\* finalHTML after the loop of renderMarkdownElement
RenderLines(lines) == Concat([k \in 1..Len(lines) |-> RenderLine(lines[k])])

\* the whole pipeline on one text
Render(textContent) == RenderLines(Classify(SplitText(textContent), 0, 0))

\* innerHTML read back as textContent: the tags dropped, the character
\* references of escapeHtml decoded (the ampersand last)
textOfRules ==
    << Rule(Cat(<<Chr("<"), Star(NotCls({">"})), Chr(">")>>), <<>>),
       Rule(Lit(<<"&", "l", "t", ";">>), <<"<">>),
       Rule(Lit(<<"&", "g", "t", ";">>), <<">">>),
       Rule(Lit(<<"&", "q", "u", "o", "t", ";">>), <<QUOT>>),
       Rule(Lit(<<"&", "#", "0", "3", "9", ";">>), <<APOS>>),
       Rule(Lit(<<"&", "a", "m", "p", ";">>), <<"&">>) >>

TextOf(html) == ApplyRules(html, textOfRules)

\* a region's children after `textContent = s` and after `innerHTML = s`
TextNode(s) == [kind |-> "text", s |-> s]
Markup(s) == [kind |-> "html", s |-> s]

\* e.textContent
TextContent(region) == IF region.kind = "text" THEN region.s ELSE TextOf(region.s)

\* ------------------------------------------------------------------ inputs

MaxChars == 3
MaxLines == 3
MaxEdits == 3

\* the strings made of 1 to n of the given pieces, sep between the pieces
RECURSIVE Join(_, _)
Join(pieces, sep) ==
    IF Len(pieces) = 0 THEN <<>>
    ELSE IF Len(pieces) = 1 THEN pieces[1]
    ELSE pieces[1] \o sep \o Join(Tail(pieces), sep)

Texts(pieces, n, sep) ==
    {Join(seq, sep) : seq \in UNION {[1..k -> pieces] : k \in 1..n}}

\* text of the markup-significant characters, a backslash and an asterisk
CharTexts ==
    Texts({<<"<">>, <<">">>, <<"&">>, <<QUOT>>, <<APOS>>, <<BSL>>, <<"*">>, <<"a">>},
          MaxChars, <<>>)
    \cup {<<"<", "s", "c", "r", "i", "p", "t", ">">>}

\* fences, a fenced block, list lines and plain lines
BlockTexts ==
    Texts({Fence, Fence \o <<NL, "z", NL>> \o Fence, <<"-", SP, "a">>, <<"x", SP, "y">>,
           <<"*", "b", "*">>, <<"1", ".", SP, "c">>}, MaxLines, <<NL>>)

\* plain lines, one character long and longer
PlainTexts == Texts({<<"a">>, <<"b", "c">>, <<"d", SP, "e">>, <<>>}, MaxLines, <<NL>>)

\* header lines and plain lines
HeaderTexts ==
    Texts({<<"#", SP, "A">>, <<"#", "#", SP, "B", SP, "c">>,
           <<"#", "#", "#", "#", "#", "#", SP, "D">>, <<"e", "f">>}, MaxLines, <<NL>>)

\* list lines: bullets, numbers, a number inside an item, leading space
ListTexts ==
    Texts({<<"-", SP, "a">>, <<"-", SP, "b">>, <<"*", SP, "b">>, <<"1", ".", SP, "c">>,
           <<"1", "0", ".", SP, "d">>, <<"-", SP, "e", SP, "2", ".", SP, "f">>,
           <<SP, "+", SP, "g">>}, MaxLines, <<NL>>)

\* lines of three hyphens and plain lines
BreakTexts == Texts({<<"-", "-", "-">>, <<"b", "c">>}, MaxLines, <<NL>>)

ArticleTexts ==
    CharTexts \cup BlockTexts \cup PlainTexts \cup HeaderTexts \cup ListTexts \cup BreakTexts

\* -------------------------------------------------------------- the page

VARIABLES
    value,        \* contentEditor.value
    changesMade,  \* edit.js: the flag behind the "* " title marker
    pending,      \* keystrokes the browser has queued for the editor
    typed,        \* how many keystrokes were typed so far
    regions,      \* the children of each element of class "markdown"
    source,       \* the raw text each region is there to show
    readText,     \* the textContent the latest pass read, per region
    wasRead,      \* the regions a pass has read
    pc,           \* "loading", "idle", or where the running pass is
    todo,         \* the elements the running pass has still to take
    cur,          \* the element of the current iteration
    splitText,    \* parseMarkdownElements: splitText
    parsedLines,  \* parseMarkdownElements: parsedLines
    handled       \* how many input events were handled

vars == <<value, changesMade, pending, typed, regions, source, readText, wasRead,
          pc, todo, cur, splitText, parsedLines, handled>>

ArticlePreview == "article-preview"
ArticleBody == "article-body"

\* querySelectorAll(".markdown"), in document order
Elements == IF ArticleBody \in DOMAIN regions THEN <<ArticleBody, ArticlePreview>>
            ELSE <<ArticlePreview>>

InitPass ==
    /\ pending = <<>> /\ typed = 0 /\ handled = 0 /\ changesMade = FALSE
    /\ readText = [r \in DOMAIN regions |-> <<>>]
    /\ wasRead = {}
    /\ pc = "loading" /\ todo = <<>> /\ cur = ArticlePreview
    /\ splitText = <<>> /\ parsedLines = <<>>

\* a page whose one markdown region holds an article's text
Init ==
    /\ value = <<>>
    /\ \E text \in ArticleTexts :
         /\ regions = [r \in {ArticlePreview} |-> TextNode(text)]
         /\ source = [r \in {ArticlePreview} |-> text]
    /\ InitPass

\* window.onload = () => { parseMarkdownElements() }
Load ==
    /\ pc = "loading"
    /\ pc' = "parse"
    /\ todo' = Elements
    /\ UNCHANGED <<value, changesMade, pending, typed, regions, source, readText,
                   wasRead, cur, splitText, parsedLines, handled>>

\* parseMarkdownElements, one iteration up to the call of renderMarkdownElement
ParseElement ==
    /\ pc = "parse" /\ todo # <<>>
    /\ cur' = Head(todo)
    /\ readText' = [readText EXCEPT ![cur'] = TextContent(regions[cur'])]
    /\ wasRead' = wasRead \cup {cur'}
    /\ splitText' = SplitText(readText'[cur'])
    /\ parsedLines' = Classify(splitText', 0, 0)
    /\ pc' = "render"
    /\ UNCHANGED <<value, changesMade, pending, typed, regions, source, todo, handled>>

\* renderMarkdownElement: async, with no await in it, so that the call runs
\* the whole body; what the element holds when the call returns
renderMarkdownElement(element, lines) == Markup(RenderLines(lines))

RenderElement ==
    /\ pc = "render"
    /\ regions' = [regions EXCEPT ![cur] = renderMarkdownElement(regions[cur], parsedLines)]
    /\ todo' = Tail(todo)
    /\ pc' = "parse"
    /\ UNCHANGED <<value, changesMade, pending, typed, source, readText, wasRead,
                   cur, splitText, parsedLines, handled>>

\* the loop of parseMarkdownElements ends and the handler returns
Return ==
    /\ pc = "parse" /\ todo = <<>>
    /\ pc' = "idle"
    /\ UNCHANGED <<value, changesMade, pending, typed, regions, source, readText,
                   wasRead, todo, cur, splitText, parsedLines, handled>>

Next == Load \/ ParseElement \/ RenderElement \/ Return

Spec == Init /\ [][Next]_vars

\* ------------------------------------------------------- the editor page

\* what one keystroke (or paste) adds to the editor
EditTokens == {<<"#">>, <<SP>>, <<"A">>, <<NL>>}

\* what the server put into the page
StoredTexts == {<<>>, <<"#", SP, "A">>, <<"a", "b">>}

\* the edit page: the editor and its preview hold the stored body; a second
\* region of class "markdown" holds another text
PageInit ==
    /\ \E body \in StoredTexts, other \in StoredTexts \ {<<>>} :
         /\ value = body
         /\ regions = [r \in {ArticleBody, ArticlePreview} |->
                         IF r = ArticlePreview THEN TextNode(body) ELSE TextNode(other)]
         /\ source = [r \in {ArticleBody, ArticlePreview} |->
                         IF r = ArticlePreview THEN body ELSE other]
    /\ InitPass

\* the user types while the page is busy or idle: the browser queues the key
Type ==
    /\ typed < MaxEdits
    /\ \E tok \in EditTokens : pending' = Append(pending, tok)
    /\ typed' = typed + 1
    /\ UNCHANGED <<value, changesMade, regions, source, readText, wasRead, pc, todo,
                   cur, splitText, parsedLines, handled>>

\* renderPreview as it would be without its assignment to textContent: the
\* preview keeps what the pass before wrote
renderPreviewKept(editorValue, preview) == preview

\* renderPreview: document.getElementById("article-preview").textContent =
\* contentEditor.value
renderPreview(editorValue, preview) == TextNode(editorValue)

\* The next queued key reaches the editor once the page is idle: the value
\* changes and the "input" listener runs, up to its call of
\* parseMarkdownElements.
Input ==
    /\ pc = "idle" /\ pending # <<>>
    /\ value' = value \o Head(pending)
    /\ pending' = Tail(pending)
    /\ changesMade' = TRUE
    /\ regions' = [regions EXCEPT
                     ![ArticlePreview] = renderPreview(value', regions[ArticlePreview])]
    /\ source' = [source EXCEPT ![ArticlePreview] = value']
    /\ handled' = handled + 1
    /\ todo' = Elements
    /\ pc' = "parse"
    /\ UNCHANGED <<typed, readText, wasRead, cur, splitText, parsedLines>>

PageNext == Load \/ ParseElement \/ RenderElement \/ Return \/ Type \/ Input

PageSpec == PageInit /\ [][PageNext]_vars

\* ---------------------------------------------------------------- claims

\* the raw text of the page's region, and the markup the pass left in it
Raw == source[ArticlePreview]
Html == regions[ArticlePreview].s

\* the lines of s: what s.split("\n") gives
FirstNL(s) == Min({i \in 1..Len(s) : s[i] = NL} \cup {Len(s) + 1})

RECURSIVE Lines(_)
Lines(s) ==
    IF FirstNL(s) > Len(s) THEN <<s>>
    ELSE <<SubSeq(s, 1, FirstNL(s) - 1)>> \o Lines(SubSeq(s, FirstNL(s) + 1, Len(s)))

\* how many times t occurs in s
Count(s, t) == Cardinality({i \in 1..Len(s) : StartsWithAt(s, t, i)})

\* the names of the tags the rule templates write
TagNames ==
    {<<"p">>, <<"i">>, <<"b">>, <<"u">>, <<"s">>, <<"c", "o", "d", "e">>, <<"p", "r", "e">>, <<"l", "i">>, <<"u", "l">>, <<"o", "l">>, <<"h", "r">>,
     <<"h", "1">>, <<"h", "2">>, <<"h", "3">>, <<"h", "4">>, <<"h", "5">>, <<"h", "6">>}

\* how a tag written by a template begins
TagOpenings ==
    {Tag(n) : n \in TagNames} \cup {EndTag(n) : n \in TagNames}
    \cup {<<"<", "i", "m", "g", SP, "a", "l", "t", "=", QUOT>>, <<"<", "a", SP, "h", "r", "e", "f", "=", QUOT>>}

OpensTag(html, i) == \E t \in TagOpenings : StartsWithAt(html, t, i)

\* the ">" at position j ends a tag that a template began
ClosesTag(html, j) ==
    \E i \in 1..(j - 1) :
        /\ OpensTag(html, i)
        /\ \A k \in (i + 1)..(j - 1) : html[k] \notin {"<", ">"}

NoneOf(s, chars) == \A i \in 1..Len(s) : s[i] \notin chars

\* C1: once a pass has rendered the region, escapeHtml has left none of the
\* characters < > " ' of any segment in place, every "<" of the markup begins
\* and every ">" ends a tag of a rule template, the markup has no "<script",
\* and the text "<script>" is shown as "&lt;script&gt;".
EscapeSafety ==
    pc = "idle" =>
        /\ \A k \in 1..Len(parsedLines) :
               NoneOf(escapeHtml(parsedLines[k].innerText), {"<", ">", QUOT, APOS})
        /\ \A i \in 1..Len(Html) :
               /\ Html[i] = "<" => OpensTag(Html, i)
               /\ Html[i] = ">" => ClosesTag(Html, i)
        /\ ~Includes(Html, <<"<", "s", "c", "r", "i", "p", "t">>)
        /\ (Raw = <<"<", "s", "c", "r", "i", "p", "t", ">">> => Includes(Html, <<"&", "l", "t", ";", "s", "c", "r", "i", "p", "t", "&", "g", "t", ";">>))

\* the text "<script>" was rendered, and shows as a character reference
EscapeSafetyWitness ==
    /\ pc = "idle"
    /\ Raw = <<"<", "s", "c", "r", "i", "p", "t", ">">>
    /\ Html = <<"<", "p", ">", "&", "l", "t", ";", "s", "c", "r", "i", "p", "t", "&", "g", "t", ";", "<", "/", "p", ">">>

\* C2: the segments parseMarkdownElements split a region's text into,
\* joined in order, are the text it read, character for character.
SegmentationRoundTrip ==
    pc = "render" => Concat(splitText) = readText[cur]

\* a text of a fenced block, a list run and normal text was split
SegmentationRoundTripWitness ==
    /\ pc = "render"
    /\ \E k \in 1..Len(parsedLines) : parsedLines[k].renderingMode = BLOCK
    /\ \E k \in 1..Len(parsedLines) : parsedLines[k].renderingMode = LIST
    /\ \E k \in 1..Len(parsedLines) :
           parsedLines[k].renderingMode = NORMAL /\ parsedLines[k].innerText # <<>>
    /\ Concat(splitText) = Raw

\* a fenced block: the opening fence line, one content line, the closing fence
Fenced(content) == Fence \o <<NL>> \o content \o <<NL>> \o Fence

\* content lines for a fence: a list line, plain text, emphasis, a numbered line
FenceContents == {<<"-", SP, "a">>, <<"x", SP, "y">>, <<"*", "b", "*">>, <<"1", ".", SP, "c">>, <<"z">>}

\* C3: a text that is one fenced block renders as one preformatted block
\* around the escaped content between the fences, whatever the content is.
FencedBlockIsOnePre ==
    \A content \in FenceContents :
        (pc = "idle" /\ Raw = Fenced(content)) =>
            Html = Tag(<<"p", "r", "e">>) \o <<NL>> \o escapeHtml(content) \o <<NL>> \o EndTag(<<"p", "r", "e">>)

\* the non-empty lines of s, in order
NonEmptyLines(s) == SelectSeq(Lines(s), LAMBDA line : line # <<>>)

\* C4: a text of plain lines renders with each non-empty line, a line of one
\* character too, as <p>line</p>, and with as many <p> as non-empty lines.
PlainLinesAreParagraphs ==
    (pc = "idle" /\ Raw \in PlainTexts) =>
        /\ \A k \in 1..Len(NonEmptyLines(Raw)) :
               Includes(Html, Tag(<<"p">>) \o NonEmptyLines(Raw)[k] \o EndTag(<<"p">>))
        /\ Count(Html, Tag(<<"p">>)) = Len(NonEmptyLines(Raw))
        /\ Count(Html, EndTag(<<"p">>)) = Len(NonEmptyLines(Raw))

\* a header line: 1 to 6 "#", a space, text
HeaderLevel(line) == Min({i \in 1..Len(line) : line[i] # "#"} \cup {Len(line) + 1}) - 1
IsHeader(line) ==
    /\ HeaderLevel(line) \in 1..6
    /\ HeaderLevel(line) + 1 < Len(line)
    /\ line[HeaderLevel(line) + 1] = SP

\* the header fragment of a header line
HeaderOf(line) ==
    Tag(<<"h", Digit(HeaderLevel(line))>>)
    \o SubSeq(line, HeaderLevel(line) + 2, Len(line))
    \o EndTag(<<"h", Digit(HeaderLevel(line))>>)

\* C5: a text of header lines and plain lines renders with each header line
\* as its header fragment, and with exactly one <p> and one </p> for each
\* non-empty line that is no header: no header is in a paragraph, and no
\* paragraph tag is left over.
HeadersOutsideParagraphs ==
    (pc = "idle" /\ Raw \in HeaderTexts) =>
        /\ \A k \in 1..Len(Lines(Raw)) :
               IsHeader(Lines(Raw)[k]) => Includes(Html, HeaderOf(Lines(Raw)[k]))
        /\ Count(Html, Tag(<<"p">>))
             = Len(SelectSeq(NonEmptyLines(Raw), LAMBDA line : ~IsHeader(line)))
        /\ Count(Html, EndTag(<<"p">>))
             = Len(SelectSeq(NonEmptyLines(Raw), LAMBDA line : ~IsHeader(line)))

\* a line whose marker is a decimal number and a dot
IsNumbered(line) ==
    /\ TrimStart(line) # <<>>
    /\ Head(TrimStart(line)) \in DecimalDigits

\* C6: a text that is one list run renders in an ordered container exactly
\* when one of its lines has a number marker, and in an unordered container
\* otherwise.
OrderedIffNumbered ==
    (pc = "idle" /\ Raw \in ListTexts) =>
        IF \E k \in 1..Len(Lines(Raw)) : IsNumbered(Lines(Raw)[k])
        THEN StartsWithAt(Html, Tag(<<"o", "l">>), 1)
        ELSE StartsWithAt(Html, Tag(<<"u", "l">>), 1)

\* the content of a marked line: what follows the marker and its whitespace
AfterMarker(line) ==
    SubSeq(line, Min({i \in 1..Len(line) : line[i] \in WhiteSpace}), Len(line))
Content(line) == TrimStart(AfterMarker(TrimStart(line)))

\* the list-item fragments of the lines, a line break between them
RECURSIVE Items(_)
Items(lines) ==
    IF lines = <<>> THEN <<>>
    ELSE Tag(<<"l", "i">>) \o Content(Head(lines)) \o EndTag(<<"l", "i">>)
         \o (IF Len(lines) = 1 THEN <<>> ELSE <<NL>> \o Items(Tail(lines)))

\* C7: a text that is one list run of n marked lines renders as one list
\* container around n list-item fragments, the i-th holding the content of
\* the i-th line without its marker; "- a\n- b" renders unordered, a then b.
ListRunIsOneContainer ==
    (pc = "idle" /\ Raw \in ListTexts) =>
        /\ \E name \in {<<"u", "l">>, <<"o", "l">>} :
               Html = Tag(name) \o Items(Lines(Raw)) \o EndTag(name)
        /\ Count(Html, Tag(<<"l", "i">>)) = Len(Lines(Raw))
        /\ (Raw = <<"-", SP, "a">> \o <<NL>> \o <<"-", SP, "b">> =>
               Html = <<"<", "u", "l", ">", "<", "l", "i", ">", "a", "<", "/", "l", "i", ">">> \o <<NL>> \o <<"<", "l", "i", ">", "b", "<", "/", "l", "i", ">", "<", "/", "u", "l", ">">>)

\* a run of three lines with three kinds of marker was rendered
ListRunIsOneContainerWitness ==
    /\ pc = "idle"
    /\ Raw = <<"-", SP, "a">> \o <<NL>> \o <<SP, "+", SP, "g">> \o <<NL>> \o <<"1", "0", ".", SP, "d">>
    /\ Count(Html, Tag(<<"l", "i">>)) = 3
    /\ Includes(Html, <<"<", "l", "i", ">", "g", "<", "/", "l", "i", ">">> \o <<NL>> \o <<"<", "l", "i", ">", "d", "<", "/", "l", "i", ">">>)

\* the numeric character reference of character c
NumericReference(c) == <<"&", "#">> \o Decimal(CharCode(c)) \o <<";">>

\* C8: a text that is a backslash and one character c renders as the numeric
\* character reference of c (in the paragraph that holds it), for every c
\* other than the line feed.
BackslashHidesCharacter ==
    (pc = "idle" /\ Len(Raw) = 2 /\ Raw[1] = BSL /\ Raw[2] # NL) =>
        /\ escapeHtml(Raw) = NumericReference(Raw[2])
        /\ Html = Tag(<<"p">>) \o NumericReference(Raw[2]) \o EndTag(<<"p">>)

\* C9: the text a pass has just read from a region is the raw text the region
\* is there to show, for every region of class "markdown" and every pass.
ReadsRawText ==
    pc = "render" => readText[cur] = source[cur]

HyphenLinesAreRules ==
    (pc = "idle" /\ Raw \in BreakTexts) =>
        /\ Count(Html, Tag(<<"h", "r">>))
             = Len(SelectSeq(Lines(Raw), LAMBDA line : line = <<"-", "-", "-">>))
        /\ ~Includes(Html, <<"-">>)
        /\ ~Includes(Html, Tag(<<"p">>) \o Tag(<<"h", "r">>))

====
